---- MODULE Spec2Model ----
(***************************************************************************)
(* The block-decomposed deque of src/deque.hpp (namespace sjtu).           *)
(*                                                                         *)
(* A double_list<T> is modelled by the sequence of its nodes' values; a    *)
(* double_list<T>::iterator (a node pointer) by the 1-based index of its   *)
(* node,                                                                   *)
(* with Null (0) for nullptr, which is also every list's end().  A deque   *)
(* is the record [blocks, total_size, block_size]; a deque::iterator the   *)
(* record [item_it, block_it, outer].  Every operation of the class is an  *)
(* operator from the deque (and arguments) to a result record holding the  *)
(* deque afterwards, the exception thrown (None when it returns) and the   *)
(* value or iterator returned.                                             *)
(***************************************************************************)
EXTENDS Integers, Sequences, FiniteSets, TLC

\* ------------------------------------------------------------------ bounds

\* The deque grows to at most MaxSize elements.
MaxSize == 9

\* at() is asked for the indices up to size() + Beyond.
Beyond == 2

\* Where two deque instances live side by side, each grows to at most MaxPair
\* elements.
MaxPair == 4
MaxFifo == 14
MaxList == 4

\* The element values.  The container never reads a value, so one element is
\* tracked at a time: it holds Mark and every other element holds Plain, which
\* tells any element's wrong place, loss or duplication from the right result.
Plain == "p"
Mark == "m"
Values == {Plain, Mark}

\* ------------------------------------------------------- failure kinds

None == "none"
\* The only exception deque.hpp throws.
StdOutOfRange == "std::out_of_range"
\* The failure kinds of exceptions.hpp.
IndexOutOfBound == "sjtu::index_out_of_bound"
RuntimeError == "sjtu::runtime_error"
InvalidIterator == "sjtu::invalid_iterator"
ContainerIsEmpty == "sjtu::container_is_empty"
\* Undefined behaviour: a null or dangling node is dereferenced.
Undefined == "undefined"

\* ------------------------------------------------------- double_list<T>

Null == 0

\* double_list::begin(): the head node, nullptr when the list is empty.
ListBegin(s) == IF Len(s) = 0 THEN Null ELSE 1

\* double_list::get_tail(): the tail node, nullptr when the list is empty.
ListGetTail(s) == Len(s)

\* std::distance(p, q) with q reachable from p by ++ (q may be end()).
ListDistance(s, p, q) ==
    LET pi == IF p = Null THEN Len(s) + 1 ELSE p
        qi == IF q = Null THEN Len(s) + 1 ELSE q
    IN qi - pi

InsertTail(s, v) == Append(s, v)

InsertHead(s, v) == <<v>> \o s

DeleteHeadTakesTail(s) == IF Len(s) = 0 THEN s ELSE SubSeq(s, 1, Len(s) - 1)
DeleteHead(s) == IF Len(s) = 0 THEN s ELSE Tail(s)

DeleteTail(s) == IF Len(s) = 0 THEN s ELSE SubSeq(s, 1, Len(s) - 1)

\* double_list::insert taking every pos for end().
ListInsertAtTail(s, p, v) == InsertTail(s, v)

\* double_list::insert(pos, value): before the node pos, at the tail for end().
ListInsert(s, p, v) ==
    IF p = Null THEN InsertTail(s, v)
    ELSE SubSeq(s, 1, p - 1) \o <<v>> \o SubSeq(s, p, Len(s))

\* double_list::erase(pos) of a non-null node.
ListErase(s, p) == SubSeq(s, 1, p - 1) \o SubSeq(s, p + 1, Len(s))

\* std::advance(p, n), n >= 0, in list s: ++ on the end marker throws.
ListAdvance(s, p, n) ==
    LET pi == IF p = Null THEN Len(s) + 1 ELSE p
    IN IF pi + n <= Len(s) THEN [err |-> None, p |-> pi + n]
       ELSE IF pi + n = Len(s) + 1 THEN [err |-> None, p |-> Null]
       ELSE [err |-> StdOutOfRange, p |-> Null]

\* n steps of -- from node p of list s: -- throws on the end marker and on the head.
ListRetreat(s, p, n) ==
    IF n = 0 THEN [err |-> None, p |-> p]
    ELSE IF p = Null \/ p - n < 1 THEN [err |-> StdOutOfRange, p |-> Null]
    ELSE [err |-> None, p |-> p - n]

\* ------------------------------------------ double_list, node by node

\* The addresses a Node may be allocated at.
Addresses == 1..MaxList

\* A double_list: node maps the address of each allocated Node to its data, pre
\* and nxt; head, tail and size_ are the list's members.
List(n, h, t, s) == [node |-> n, head |-> h, tail |-> t, size_ |-> s]

\* double_list::double_list()
NoNode == [a \in {} |-> Null]
EmptyList == List(NoNode, Null, Null, 0)

\* new Node(val) at address a, and delete of the Node at address a.
NewNode(v) == [data |-> v, pre |-> Null, nxt |-> Null]
With(node, a, n) == [b \in DOMAIN node \cup {a} |-> IF b = a THEN n ELSE node[b]]
Without(node, a) == [b \in DOMAIN node \ {a} |-> node[b]]

\* A list operation's result: the list afterwards, the exception thrown (None
\* when it returns) and the iterator returned, as its current.
LOkIt(l, p) == [l |-> l, err |-> None, it |-> p]
LThrow(l, e) == [l |-> l, err |-> e, it |-> Null]

\* double_list::iterator::operator++ on an iterator whose current is p.
list_inc(l, p) ==
    IF p /= Null THEN LOkIt(l, l.node[p].nxt)
    ELSE LThrow(l, StdOutOfRange)

\* double_list::iterator::operator-- on an iterator whose current is p.
list_dec(l, p) ==
    IF p /= Null /\ l.node[p].pre /= Null THEN LOkIt(l, l.node[p].pre)
    ELSE LThrow(l, StdOutOfRange)

\* double_list::begin(), get_tail(), end()
list_begin(l) == l.head
list_get_tail(l) == l.tail
list_end(l) == Null

\* double_list::insert_head(value), the new Node allocated at a.
insert_head(l, a, v) ==
    IF l.head = Null
    THEN List(With(l.node, a, NewNode(v)), a, a, l.size_ + 1)
    ELSE LET n1 == [l.node EXCEPT ![l.head].pre = a]
             n2 == With(n1, a, [NewNode(v) EXCEPT !.nxt = l.head])
         IN List(n2, a, l.tail, l.size_ + 1)

\* double_list::insert_tail(value), the new Node allocated at a.
insert_tail(l, a, v) ==
    IF l.tail = Null
    THEN List(With(l.node, a, NewNode(v)), a, a, l.size_ + 1)
    ELSE LET n1 == [l.node EXCEPT ![l.tail].nxt = a]
             n2 == With(n1, a, [NewNode(v) EXCEPT !.pre = l.tail])
         IN List(n2, l.head, a, l.size_ + 1)

\* delete_head leaving the new head's pre as it was.
delete_head_KeepsPre(l) ==
    IF l.head = Null THEN l
    ELSE LET h == l.node[l.head].nxt
         IN List(Without(l.node, l.head), h, IF h /= Null THEN l.tail ELSE Null,
                 l.size_ - 1)

\* double_list::delete_head()
delete_head(l) ==
    IF l.head = Null THEN l
    ELSE LET h == l.node[l.head].nxt
             n1 == IF h /= Null THEN [l.node EXCEPT ![h].pre = Null] ELSE l.node
         IN List(Without(n1, l.head), h, IF h /= Null THEN l.tail ELSE Null,
                 l.size_ - 1)

\* double_list::delete_tail()
delete_tail(l) ==
    IF l.tail = Null THEN l
    ELSE LET t == l.node[l.tail].pre
             n1 == IF t /= Null THEN [l.node EXCEPT ![t].nxt = Null] ELSE l.node
         IN List(Without(n1, l.tail), IF t /= Null THEN l.head ELSE Null, t,
                 l.size_ - 1)

\* double_list::erase(pos), pos.current being p: end() or a node of l.
list_erase(l, p) ==
    IF p = Null THEN LThrow(l, StdOutOfRange)
    ELSE LET pre == l.node[p].pre
             nxt == l.node[p].nxt
             n1 == IF pre /= Null THEN [l.node EXCEPT ![pre].nxt = nxt] ELSE l.node
             h == IF pre /= Null THEN l.head ELSE nxt
             n2 == IF nxt /= Null THEN [n1 EXCEPT ![nxt].pre = pre] ELSE n1
             t == IF nxt /= Null THEN l.tail ELSE pre
         IN LOkIt(List(Without(n2, p), h, t, l.size_ - 1), nxt)

\* double_list::insert(pos, value), pos.current being p: end() or a node of l;
\* the new Node is allocated at a.
list_insert(l, p, a, v) ==
    IF p = list_end(l)
    THEN LET l1 == insert_tail(l, a, v) IN LOkIt(l1, l1.tail)
    ELSE LET pre == l.node[p].pre
             n1 == IF pre /= Null THEN [l.node EXCEPT ![pre].nxt = a] ELSE l.node
             h == IF pre /= Null THEN l.head ELSE a
             n2 == [n1 EXCEPT ![p].pre = a]
             n3 == With(n2, a, [data |-> v, pre |-> pre, nxt |-> p])
         IN LOkIt(List(n3, h, l.tail, l.size_ + 1), a)

\* The loop of double_list::clear() (lines 246-250): each node from head on is
\* deleted.
RECURSIVE ClearLoop(_)
ClearLoop(l) ==
    IF l.head = Null THEN l
    ELSE ClearLoop(List(Without(l.node, l.head), l.node[l.head].nxt, l.tail, l.size_))

\* double_list::clear()
list_clear(l) == LET l1 == ClearLoop(l) IN List(l1.node, l1.head, Null, 0)

\* ------------------------------------------------------------- the deque

Deque(b, t, s) == [blocks |-> b, total_size |-> t, block_size |-> s]

InitialBlockSize == 4

\* deque::deque()
EmptyDeque == Deque(<<>>, 0, InitialBlockSize)

\* (size_t) std::sqrt(n)
ISqrt(n) == CHOOSE r \in 0..n : r * r <= n /\ (r + 1) * (r + 1) > n

\* blocks with block i replaced by items.
SetBlock(bl, i, items) == [bl EXCEPT ![i] = items]

\* Split with the new block put before the block it was taken from.
SplitBefore(bl, bs, i) ==
    IF Len(bl[i]) <= bs THEN bl
    ELSE LET half == Len(bl[i]) \div 2
             keep == SubSeq(bl[i], 1, half)
             new_block == SubSeq(bl[i], half + 1, Len(bl[i]))
         IN SubSeq(bl, 1, i - 1) \o <<new_block, keep>> \o SubSeq(bl, i + 1, Len(bl))

\* MoveTail putting each moved item at the head of new_block.
RECURSIVE MoveTailReversed(_, _, _)
MoveTailReversed(items, split_it, new_block) ==
    IF split_it = Null THEN [items |-> items, new_block |-> new_block]
    ELSE LET left == ListErase(items, split_it)
         IN MoveTailReversed(left,
                             IF split_it <= Len(left) THEN split_it ELSE Null,
                             InsertHead(new_block, items[split_it]))

\* The loop of Split (lines 338-341): from node split_it of items on, each item
\* is appended to new_block and erased, erase returning the node after it.
RECURSIVE MoveTail(_, _, _)
MoveTail(items, split_it, new_block) ==
    IF split_it = Null THEN [items |-> items, new_block |-> new_block]
    ELSE LET left == ListErase(items, split_it)
         IN MoveTail(left,
                     IF split_it <= Len(left) THEN split_it ELSE Null,
                     InsertTail(new_block, items[split_it]))

\* deque::Split(it) on block i of bl under block size bs.
Split(bl, bs, i) ==
    IF Len(bl[i]) <= bs THEN bl
    ELSE LET split_it == ListAdvance(bl[i], ListBegin(bl[i]), Len(bl[i]) \div 2).p
             m == MoveTail(bl[i], split_it, <<>>)
             bl1 == SetBlock(bl, i, m.items)
         IN IF i /= ListGetTail(bl1)
            THEN ListInsert(bl1, i + 1, m.new_block)
            ELSE InsertTail(bl1, m.new_block)

\* Merge only when the two blocks together stay below block_size.
MergeBelow(bl, bs, i) ==
    IF i > Len(bl) THEN bl
    ELSE IF i + 1 > Len(bl) THEN bl
    ELSE IF Len(bl[i]) + Len(bl[i + 1]) < bs
         THEN ListErase(SetBlock(bl, i, bl[i] \o bl[i + 1]), i + 1)
         ELSE bl

\* Merge erasing the successor without appending its items first.
MergeDropsSuccessor(bl, bs, i) ==
    IF i > Len(bl) THEN bl
    ELSE IF i + 1 > Len(bl) THEN bl
    ELSE IF Len(bl[i]) + Len(bl[i + 1]) <= bs
         THEN ListErase(bl, i + 1)
         ELSE bl

\* The loop of Merge (lines 321-325): every item of next_block from node next_it
\* on is appended to the current block's items.
RECURSIVE AppendAll(_, _, _)
AppendAll(items, next_block, next_it) ==
    IF next_it = Null THEN items
    ELSE AppendAll(InsertTail(items, next_block[next_it]), next_block,
                   ListAdvance(next_block, next_it, 1).p)

\* deque::Merge(it) on block i of bl under block size bs.
Merge(bl, bs, i) ==
    IF i > Len(bl) THEN bl
    ELSE IF i + 1 > Len(bl) THEN bl
    ELSE IF Len(bl[i]) + Len(bl[i + 1]) <= bs
         THEN ListErase(SetBlock(bl, i, AppendAll(bl[i], bl[i + 1], ListBegin(bl[i + 1]))),
                        i + 1)
         ELSE bl

\* One iteration of Balance's scan at block i.
ScanStep(bl, bs, i) ==
    IF Len(bl[i]) > bs * 2 THEN Split(bl, bs, i)
    ELSE IF Len(bl[i]) * 2 < bs THEN Merge(bl, bs, i)
    ELSE bl

\* Balance's while loop from block i to blocks.end().
RECURSIVE Scan(_, _, _)
Scan(bl, bs, i) ==
    IF i > Len(bl) THEN bl
    ELSE Scan(ScanStep(bl, bs, i), bs, i + 1)

\* Balance scanning even when the recomputed block_size is the cached one.
BalanceAlwaysScans(d) ==
    IF Len(d.blocks) = 0 THEN d
    ELSE LET new_block_size == ISqrt(d.total_size) + 1
         IN Deque(Scan(d.blocks, new_block_size, 1), d.total_size, new_block_size)

\* Balance recomputing block_size, and scanning, only when the size has grown.
BalanceOnGrowth(d) ==
    IF Len(d.blocks) = 0 THEN d
    ELSE LET new_block_size == ISqrt(d.total_size) + 1
         IN IF new_block_size > d.block_size
            THEN Deque(Scan(d.blocks, new_block_size, 1), d.total_size, new_block_size)
            ELSE d

\* deque::Balance()
Balance(d) ==
    IF Len(d.blocks) = 0 THEN d
    ELSE LET new_block_size == ISqrt(d.total_size) + 1
         IN IF new_block_size /= d.block_size
            THEN Deque(Scan(d.blocks, new_block_size, 1), d.total_size, new_block_size)
            ELSE d

\* An operation's result: the deque afterwards, the exception thrown (None when
\* it returns), the value returned (a T or a size_t) and the iterator returned.
NoOuter == "nullptr"
NullIt == [item_it |-> Null, block_it |-> Null, outer |-> NoOuter]
Ok(d) == [d |-> d, err |-> None, val |-> Null, it |-> NullIt]
OkVal(d, v) == [d |-> d, err |-> None, val |-> v, it |-> NullIt]
OkIt(d, i) == [d |-> d, err |-> None, val |-> Null, it |-> i]
Throw(d, e) == [d |-> d, err |-> e, val |-> Null, it |-> NullIt]

\* The block list's erase left out: the emptied block stays.
EraseBlockSkipped(bl, i) == bl

\* double_list<Block>::erase of block i.
EraseBlock(bl, i) == ListErase(bl, i)

\* push_back opening a new block only when the tail block is above block_size.
push_back_put_Late(d, v) ==
    LET bl1 == IF Len(d.blocks) = 0 \/ Len(d.blocks[Len(d.blocks)]) > d.block_size
               THEN InsertTail(d.blocks, <<>>)
               ELSE d.blocks
        bl2 == SetBlock(bl1, Len(bl1), InsertTail(bl1[Len(bl1)], v))
    IN Deque(bl2, d.total_size + 1, d.block_size)

\* push_back up to its call of Balance (lines 1126-1130).
push_back_put(d, v) ==
    LET bl1 == IF Len(d.blocks) = 0 \/ Len(d.blocks[Len(d.blocks)]) >= d.block_size
               THEN InsertTail(d.blocks, <<>>)
               ELSE d.blocks
        bl2 == SetBlock(bl1, Len(bl1), InsertTail(bl1[Len(bl1)], v))
    IN Deque(bl2, d.total_size + 1, d.block_size)

\* deque::push_back(value)
push_back(d, v) == Ok(Balance(push_back_put(d, v)))

\* push_front up to its call of Balance (lines 1144-1148).
push_front_put(d, v) ==
    LET bl1 == IF Len(d.blocks) = 0 \/ Len(d.blocks[1]) >= d.block_size
               THEN InsertHead(d.blocks, <<>>)
               ELSE d.blocks
        bl2 == SetBlock(bl1, 1, InsertHead(bl1[1], v))
    IN Deque(bl2, d.total_size + 1, d.block_size)

\* deque::push_front(value)
push_front(d, v) == Ok(Balance(push_front_put(d, v)))

\* pop_back of a deque with blocks up to its call of Balance (lines 1136-1139).
pop_back_take(d) ==
    LET n == Len(d.blocks)
        bl1 == SetBlock(d.blocks, n, DeleteTail(d.blocks[n]))
        bl2 == IF Len(bl1[n]) = 0 THEN DeleteTail(bl1) ELSE bl1
    IN Deque(bl2, d.total_size - 1, d.block_size)

\* deque::pop_back(); blocks.back() of an empty block list is undefined.
pop_back(d) ==
    IF d.total_size = 0 THEN Throw(d, StdOutOfRange)
    ELSE IF Len(d.blocks) = 0 THEN Throw(d, Undefined)
    ELSE Ok(Balance(pop_back_take(d)))

\* pop_front without the decrement of total_size.
pop_front_KeepsSize(d) ==
    IF d.total_size = 0 THEN Throw(d, StdOutOfRange)
    ELSE IF Len(d.blocks) = 0 THEN Throw(d, Undefined)
    ELSE LET bl1 == SetBlock(d.blocks, 1, DeleteHead(d.blocks[1]))
             bl2 == IF Len(bl1[1]) = 0 THEN DeleteHead(bl1) ELSE bl1
         IN Ok(Balance(Deque(bl2, d.total_size, d.block_size)))

\* pop_front of a deque with blocks up to its call of Balance (lines 1154-1157).
pop_front_take(d) ==
    LET bl1 == SetBlock(d.blocks, 1, DeleteHead(d.blocks[1]))
        bl2 == IF Len(bl1[1]) = 0 THEN DeleteHead(bl1) ELSE bl1
    IN Deque(bl2, d.total_size - 1, d.block_size)

\* deque::pop_front()
pop_front(d) ==
    IF d.total_size = 0 THEN Throw(d, StdOutOfRange)
    ELSE IF Len(d.blocks) = 0 THEN Throw(d, Undefined)
    ELSE Ok(Balance(pop_front_take(d)))

\* clear leaving block_size as it finds it.
clearKeepsBlockSize(d) == Ok(Deque(<<>>, 0, d.block_size))

\* deque::clear()
clear(d) == Ok(Deque(<<>>, 0, InitialBlockSize))

\* ------------------------------------------------------------- iterators

\* The deque's identity, an iterator's outer.
This == "this"

\* The identity of a second deque instance, the outer of its iterators.
Elsewhere == "elsewhere"

Iter(i, b, o) == [item_it |-> i, block_it |-> b, outer |-> o]

\* deque::begin()
begin(d) ==
    IF Len(d.blocks) = 0 THEN Iter(Null, Null, This)
    ELSE Iter(ListBegin(d.blocks[1]), 1, This)

\* end() as the pair of null pointers whatever the blocks.
endOfNoBlock(d) == Iter(Null, Null, This)

\* deque::end()
end(d) ==
    IF Len(d.blocks) = 0 THEN Iter(Null, Null, This)
    ELSE Iter(Null, ListGetTail(d.blocks), This)

\* An iterator of a second instance as the deque called sees it: the same node
\* indices, in the other instance's chains.
Foreign(it) == Iter(it.item_it, it.block_it, Elsewhere)

\* operator== comparing the item pointers alone.
ItEqOnItem(a, b) ==
    /\ a.item_it = b.item_it
    /\ a.item_it = Null \/ a.outer = b.outer

\* deque::iterator::operator==: the two node pointers are compared.  Null
\* pointers are equal whatever their iterators' owners; nodes are equal when
\* they are the same node of the same instance.
ItEq(a, b) ==
    /\ a.block_it = b.block_it
    /\ a.item_it = b.item_it
    /\ a.block_it = Null \/ a.outer = b.outer

\* The while loop of operator+ (lines 398-413) and the advance after it.
RECURSIVE PlusWalk(_, _, _, _)
PlusWalk(d, b, i, remain) ==
    IF remain > 0 /\ ~(remain < Len(d.blocks[b]))
    THEN LET r == remain - Len(d.blocks[b])
         IN IF b /= ListGetTail(d.blocks)
            THEN PlusWalk(d, b + 1, ListBegin(d.blocks[b + 1]), r)
            ELSE IF r /= 0 THEN Throw(d, StdOutOfRange)
                 ELSE PlusWalk(d, b, Null, r)
    ELSE LET a == ListAdvance(d.blocks[b], i, remain)
         IN IF a.err /= None THEN Throw(d, a.err)
            ELSE OkIt(d, Iter(a.p, b, This))

\* The while loop of operator-(int) (lines 445-453) and the retreat after it.
RECURSIVE MinusWalk(_, _, _, _)
MinusWalk(d, b, i, remain) ==
    IF remain > 0 /\ ~(remain < Len(d.blocks[b]))
    THEN IF b = 1 THEN Throw(d, StdOutOfRange)
         ELSE MinusWalk(d, b - 1, ListGetTail(d.blocks[b - 1]), remain - Len(d.blocks[b]))
    ELSE LET a == ListRetreat(d.blocks[b], i, remain)
         IN IF a.err /= None THEN Throw(d, a.err)
            ELSE OkIt(d, Iter(a.p, b, This))

\* deque::iterator::operator-(const int&) for n > 0, on an iterator of d.
MinusPos(d, it, n) ==
    LET atEnd == ItEq(it, end(d))
    IN IF (atEnd /\ Len(d.blocks) = 0) \/ (~atEnd /\ it.block_it = Null)
       THEN Throw(d, Undefined)
       ELSE LET b == IF atEnd THEN ListGetTail(d.blocks) ELSE it.block_it
                i == IF atEnd THEN ListGetTail(d.blocks[b]) ELSE it.item_it
                remain == IF atEnd THEN n - 1 ELSE n
                block_remaining == ListDistance(d.blocks[b], ListBegin(d.blocks[b]), i)
            IN IF remain <= block_remaining
               THEN LET a == ListRetreat(d.blocks[b], i, remain)
                    IN IF a.err /= None THEN Throw(d, a.err)
                       ELSE OkIt(d, Iter(a.p, b, This))
               ELSE IF b = 1 THEN Throw(d, StdOutOfRange)
               ELSE MinusWalk(d, b - 1, ListGetTail(d.blocks[b - 1]),
                              remain - block_remaining - 1)

\* PlusPos staying in the block when n is exactly what remains of it.
PlusPosStaysInBlock(d, it, n) ==
    IF it.block_it = Null THEN Throw(d, StdOutOfRange)
    ELSE LET b == it.block_it
             block_remaining == ListDistance(d.blocks[b], it.item_it, Null)
         IN IF n <= block_remaining
            THEN OkIt(d, Iter(ListAdvance(d.blocks[b], it.item_it, n).p, b, This))
            ELSE LET remain == n - block_remaining
                 IN IF b + 1 > Len(d.blocks) THEN Throw(d, StdOutOfRange)
                    ELSE PlusWalk(d, b + 1, ListBegin(d.blocks[b + 1]), remain)

\* deque::iterator::operator+(const int&) for n > 0, on an iterator of d.
PlusPos(d, it, n) ==
    IF it.block_it = Null THEN Throw(d, StdOutOfRange)
    ELSE LET b == it.block_it
             block_remaining == ListDistance(d.blocks[b], it.item_it, Null)
         IN IF n < block_remaining
            THEN OkIt(d, Iter(ListAdvance(d.blocks[b], it.item_it, n).p, b, This))
            ELSE LET remain == n - block_remaining
                 IN IF remain = 0 /\ b = ListGetTail(d.blocks) THEN OkIt(d, end(d))
                    ELSE IF b + 1 > Len(d.blocks) THEN Throw(d, StdOutOfRange)
                    ELSE PlusWalk(d, b + 1, ListBegin(d.blocks[b + 1]), remain)

\* deque::iterator::operator+(const int&)
PlusInt(d, it, n) ==
    IF n < 0 THEN MinusPos(d, it, -n)
    ELSE IF n = 0 THEN OkIt(d, it)
    ELSE PlusPos(d, it, n)

\* deque::iterator::operator-(const int&)
MinusInt(d, it, n) ==
    IF n < 0 THEN PlusPos(d, it, -n)
    ELSE IF n = 0 THEN OkIt(d, it)
    ELSE MinusPos(d, it, n)

\* The sum of the sizes of blocks from..to of bl.
RECURSIVE SumSizes(_, _, _)
SumSizes(bl, from, to) ==
    IF from > to THEN 0 ELSE Len(bl[from]) + SumSizes(bl, from + 1, to)

\* A size_t holding 2^64 - n, n > 0, is kept as the integer -n.
WrapNeg(n) == -n

\* The forward walk of operator-(const iterator&) from iterator a to iterator b,
\* a's block before b's (lines 488-503, 506-523).
ForwardDistance(d, a, b) ==
    ListDistance(d.blocks[a.block_it], a.item_it, Null)
    + SumSizes(d.blocks, a.block_it + 1, b.block_it - 1)
    + ListDistance(d.blocks[b.block_it], ListBegin(d.blocks[b.block_it]), b.item_it)

\* block_it == rhs.block_it (line 474) of two non-null block nodes.
SameBlock(a, b) == a.outer = b.outer /\ a.block_it = b.block_it

\* The walk by ++ from a's block (lines 492-499, 513-520) meets b's block before
\* blocks.end(): both are nodes of one instance's chain, a's the earlier.
Reaches(a, b) == a.outer = b.outer /\ a.block_it < b.block_it

\* deque::iterator::operator-(const iterator& rhs); d is the deque that owns the
\* iterators when one deque owns both.
Diff(d, it, rhs) ==
    IF it.block_it = Null \/ rhs.block_it = Null THEN Throw(d, StdOutOfRange)
    ELSE IF SameBlock(it, rhs)
    THEN LET s == d.blocks[it.block_it]
             f == ListDistance(s, rhs.item_it, Null) < ListDistance(s, it.item_it, Null)
         IN IF f THEN OkVal(d, WrapNeg(ListDistance(s, it.item_it, rhs.item_it)))
            ELSE OkVal(d, ListDistance(s, rhs.item_it, it.item_it))
    ELSE IF Reaches(rhs, it) THEN OkVal(d, ForwardDistance(d, rhs, it))
    ELSE IF Reaches(it, rhs) THEN OkVal(d, WrapNeg(ForwardDistance(d, it, rhs)))
    ELSE Throw(d, StdOutOfRange)

\* operator++ leaving the item-end marker of a block that has a successor as
\* it is, not moving to the successor's first item.
PlusPlusStaysInBlock(d, it) ==
    IF it.block_it = Null THEN Throw(d, StdOutOfRange)
    ELSE IF it.block_it = ListGetTail(d.blocks) /\ it.item_it = Null
    THEN Throw(d, StdOutOfRange)
    ELSE IF it.item_it = Null THEN Throw(d, StdOutOfRange)
    ELSE OkIt(d, Iter(ListAdvance(d.blocks[it.block_it], it.item_it, 1).p,
                      it.block_it, This))

\* deque::iterator::operator++ (prefix; the postfix one moves the same way), on
\* an iterator of d.
PlusPlus(d, it) ==
    IF it.block_it = Null THEN Throw(d, StdOutOfRange)
    ELSE IF it.block_it = ListGetTail(d.blocks) /\ it.item_it = Null
    THEN Throw(d, StdOutOfRange)
    ELSE IF it.item_it = Null THEN Throw(d, StdOutOfRange)
    ELSE LET a == ListAdvance(d.blocks[it.block_it], it.item_it, 1)
         IN IF a.p = Null /\ it.block_it /= ListGetTail(d.blocks)
            THEN OkIt(d, Iter(ListBegin(d.blocks[it.block_it + 1]), it.block_it + 1, This))
            ELSE OkIt(d, Iter(a.p, it.block_it, This))

\* deque::iterator::operator-- (prefix; the postfix one moves the same way), on
\* an iterator of d.  On end() of a deque without blocks, blocks.get_tail() is
\* null and block_it->items reads through it.
MinusMinus(d, it) ==
    IF ItEq(it, end(d))
    THEN IF Len(d.blocks) = 0 THEN Throw(d, Undefined)
         ELSE OkIt(d, Iter(ListGetTail(d.blocks[ListGetTail(d.blocks)]),
                           ListGetTail(d.blocks), This))
    ELSE IF it.block_it = Null THEN Throw(d, Undefined)
    ELSE IF it.block_it = ListBegin(d.blocks)
            /\ it.item_it = ListBegin(d.blocks[it.block_it])
    THEN Throw(d, StdOutOfRange)
    ELSE IF it.item_it = Null THEN Throw(d, StdOutOfRange)
    ELSE IF it.item_it = ListBegin(d.blocks[it.block_it])
    THEN OkIt(d, Iter(ListGetTail(d.blocks[it.block_it - 1]), it.block_it - 1, This))
    ELSE OkIt(d, Iter(ListRetreat(d.blocks[it.block_it], it.item_it, 1).p, it.block_it, This))

\* deque::iterator::operator*: the list iterator's operator* throws on the end
\* marker; a null block with a non-null item does not occur.
Deref(d, it) ==
    IF it.item_it = Null THEN Throw(d, StdOutOfRange)
    ELSE IF it.block_it = Null THEN Throw(d, Undefined)
    ELSE OkVal(d, d.blocks[it.block_it][it.item_it])

\* size_t comparison a > b of a size_t a that may have wrapped with a size b.
SizeGreater(a, b) == a < 0 \/ a > b

\* ------------------------------------------------------ element access

\* The for loop of at without the accumulation of current_pos.
RECURSIVE AtWalkNoSum(_, _, _, _)
AtWalkNoSum(d, b, current_pos, pos) ==
    IF b > Len(d.blocks) THEN Throw(d, StdOutOfRange)
    ELSE IF current_pos + Len(d.blocks[b]) > pos
    THEN OkVal(d, d.blocks[b][pos - current_pos + 1])
    ELSE AtWalkNoSum(d, b + 1, current_pos, pos)

\* The for loop of deque::at from block b with current_pos elements before it.
RECURSIVE AtWalk(_, _, _, _)
AtWalk(d, b, current_pos, pos) ==
    IF b > Len(d.blocks) THEN Throw(d, StdOutOfRange)
    ELSE IF current_pos + Len(d.blocks[b]) > pos
    THEN OkVal(d, d.blocks[b][pos - current_pos + 1])
    ELSE AtWalk(d, b + 1, current_pos + Len(d.blocks[b]), pos)

\* deque::at(pos), and operator[] which calls it.
at(d, pos) ==
    IF pos >= d.total_size THEN Throw(d, StdOutOfRange)
    ELSE AtWalk(d, 1, 0, pos)

\* deque::front(): double_list::front() throws on an empty list.
front(d) ==
    IF Len(d.blocks) = 0 THEN Throw(d, StdOutOfRange)
    ELSE IF Len(d.blocks[1]) = 0 THEN Throw(d, StdOutOfRange)
    ELSE OkVal(d, d.blocks[1][1])

\* deque::back()
back(d) ==
    LET n == Len(d.blocks)
    IN IF n = 0 THEN Throw(d, StdOutOfRange)
       ELSE IF Len(d.blocks[n]) = 0 THEN Throw(d, StdOutOfRange)
       ELSE OkVal(d, d.blocks[n][Len(d.blocks[n])])

\* ------------------------------------------------------ insert and erase

\* Locate leaving a block only when dis is beyond its size, not at it.
RECURSIVE LocateStrict(_, _, _)
LocateStrict(d, b, dis) ==
    IF dis > Len(d.blocks[b])
    THEN IF b = ListGetTail(d.blocks) THEN [b |-> b, dis |-> dis - Len(d.blocks[b])]
         ELSE LocateStrict(d, b + 1, dis - Len(d.blocks[b]))
    ELSE [b |-> b, dis |-> dis]

\* The loop of insert and erase that finds the block of logical offset dis
\* (lines 1077-1082, 1112-1117), from block b.
RECURSIVE Locate(_, _, _)
Locate(d, b, dis) ==
    IF dis >= Len(d.blocks[b])
    THEN IF b = ListGetTail(d.blocks) THEN [b |-> b, dis |-> dis - Len(d.blocks[b])]
         ELSE Locate(d, b + 1, dis - Len(d.blocks[b]))
    ELSE [b |-> b, dis |-> dis]

\* Relocate without the std::advance: the begin() of the block found.
RelocateNoAdvance(d, dis) ==
    LET l == Locate(d, 1, dis)
    IN OkIt(d, Iter(ListBegin(d.blocks[l.b]), l.b, This))

\* The iterator insert and erase return: Locate, then std::advance from the
\* block's begin() (lines 1077-1087, 1112-1122).
Relocate(d, dis) ==
    LET l == Locate(d, 1, dis)
        a == ListAdvance(d.blocks[l.b], ListBegin(d.blocks[l.b]), l.dis)
    IN IF a.err /= None THEN Throw(d, a.err)
       ELSE OkIt(d, Iter(a.p, l.b, This))

\* InsertFirst returning the new block's items.end().
InsertFirstReturnsEnd(d, v) ==
    LET bl0 == InsertTail(d.blocks, <<>>)
        bl == SetBlock(bl0, ListGetTail(bl0), InsertTail(bl0[ListGetTail(bl0)], v))
    IN OkIt(Deque(bl, d.total_size + 1, d.block_size),
            Iter(Null, ListGetTail(bl), This))

\* deque::insert's branch for a deque without blocks, pos being end()
\* (lines 1059-1062).
InsertFirst(d, v) ==
    LET bl0 == InsertTail(d.blocks, <<>>)
        bl == SetBlock(bl0, ListGetTail(bl0), InsertTail(bl0[ListGetTail(bl0)], v))
    IN OkIt(Deque(bl, d.total_size + 1, d.block_size),
            Iter(ListBegin(bl[ListGetTail(bl)]), ListGetTail(bl), This))

\* insert into a deque with blocks, its checks passed, up to its call of
\* Balance (lines 1071-1073).
insert_put(d, pos, v) ==
    LET b == pos.block_it
    IN Deque(SetBlock(d.blocks, b, ListInsert(d.blocks[b], pos.item_it, v)),
             d.total_size + 1, d.block_size)

\* deque::insert(pos, value), pos an iterator of d, of a second instance or a
\* default one.
insert(d, pos, v) ==
    IF Len(d.blocks) = 0
    THEN IF ~ItEq(pos, end(d)) THEN Throw(d, StdOutOfRange)
         ELSE InsertFirst(d, v)
    ELSE IF pos.block_it = Null THEN Throw(d, StdOutOfRange)
    ELSE LET dis == Diff(d, pos, begin(d))
         IN IF dis.err /= None THEN Throw(d, dis.err)
            ELSE IF SizeGreater(dis.val, d.total_size) THEN Throw(d, StdOutOfRange)
            ELSE Relocate(Balance(insert_put(d, pos, v)), dis.val)

\* erase with total_size decremented before the range check of dis.
eraseChecksLate(d, pos) ==
    IF pos.block_it = Null THEN Throw(d, StdOutOfRange)
    ELSE LET dis == Diff(d, pos, begin(d))
             d0 == Deque(d.blocks, d.total_size - 1, d.block_size)
         IN IF dis.err /= None THEN Throw(d, dis.err)
            ELSE IF dis.val < 0 \/ dis.val >= d.total_size THEN Throw(d0, StdOutOfRange)
            ELSE IF pos.item_it = Null THEN Throw(d0, StdOutOfRange)
            ELSE LET b == pos.block_it
                     bl1 == SetBlock(d.blocks, b, ListErase(d.blocks[b], pos.item_it))
                     bl2 == IF Len(bl1[b]) = 0 THEN EraseBlock(bl1, b) ELSE bl1
                     d1 == Deque(bl2, d.total_size - 1, d.block_size)
                 IN IF d1.total_size = 0 \/ dis.val = d1.total_size
                    THEN OkIt(d1, end(d1))
                    ELSE Relocate(Balance(d1), dis.val)

\* erase, its checks passed, up to its early return (lines 1098-1104).
erase_take(d, pos) ==
    LET b == pos.block_it
        bl1 == SetBlock(d.blocks, b, ListErase(d.blocks[b], pos.item_it))
        bl2 == IF Len(bl1[b]) = 0 THEN EraseBlock(bl1, b) ELSE bl1
    IN Deque(bl2, d.total_size - 1, d.block_size)

\* deque::erase(pos), pos an iterator of d, of a second instance or a default
\* one.
erase(d, pos) ==
    IF pos.block_it = Null THEN Throw(d, StdOutOfRange)
    ELSE LET dis == Diff(d, pos, begin(d))
         IN IF dis.err /= None THEN Throw(d, dis.err)
            ELSE IF dis.val < 0 \/ dis.val >= d.total_size THEN Throw(d, StdOutOfRange)
            ELSE IF pos.item_it = Null THEN Throw(d, StdOutOfRange)
            ELSE LET d1 == erase_take(d, pos)
                 IN IF d1.total_size = 0 \/ dis.val = d1.total_size
                    THEN OkIt(d1, end(d1))
                    ELSE Relocate(Balance(d1), dis.val)

\* double_list::double_list(const double_list&), and the inner loop of the
\* deque's copy constructor: insert_tail of every element of src in turn.
RECURSIVE CopyList(_, _)
CopyList(src, acc) ==
    IF Len(src) = 0 THEN acc
    ELSE CopyList(Tail(src), InsertTail(acc, Head(src)))

\* The outer loop of the copy constructor: new_block is filled from a block of
\* src, and blocks.insert_tail(new_block) stores a copy of it.
RECURSIVE CopyBlocks(_, _)
CopyBlocks(src, acc) ==
    IF Len(src) = 0 THEN acc
    ELSE CopyBlocks(Tail(src),
                    InsertTail(acc, CopyList(CopyList(Head(src), <<>>), <<>>)))

\* deque::deque(const deque& o): the deque constructed.
CopyConstruct(o) ==
    Ok(Deque(CopyBlocks(o.blocks, clear(EmptyDeque).d.blocks),
             o.total_size, o.block_size))

\* A program that calls the member is rejected by the compiler.
IllFormed == "ill-formed"

\* deque::operator=(const deque& o) const, called on d: the member is declared
\* const and its body calls clear() and assigns to members, so instantiating
\* it does not compile and no assignment ever runs.
CopyAssign(d, o) == Throw(d, IllFormed)

\* The logical sequence: the blocks' items concatenated in block order.
RECURSIVE Concat(_)
Concat(bl) == IF Len(bl) = 0 THEN <<>> ELSE Head(bl) \o Concat(Tail(bl))

\* ------------------------------------------------------ the state machine

VARIABLES
    blocks,      \* deque::blocks: the sequence of blocks, each the sequence of its items
    total_size,  \* deque::total_size
    block_size,  \* deque::block_size
    ref,         \* the flat-array reference model: the same calls applied to a sequence
    other,       \* a second deque instance, as a record like D
    calls,       \* the push_back and pop_front calls made so far in the FIFO scenario
    list         \* a double_list by its nodes: their pre and nxt, head, tail and size_

vars == <<blocks, total_size, block_size, ref, other, calls, list>>

\* The deque of the current state.
D == Deque(blocks, total_size, block_size)

\* A call may add v: the deque is below MaxSize, and holds no Mark when v is Mark.
CanAdd(v) ==
    /\ total_size < MaxSize
    /\ v = Mark => \A i \in 1..Len(ref) : ref[i] /= Mark

\* The reference model's insert before index k (0-based) and erase of index k.
InsertAt(s, k, v) == SubSeq(s, 1, k) \o <<v>> \o SubSeq(s, k + 1, Len(s))
RemoveAt(s, k) == SubSeq(s, 1, k) \o SubSeq(s, k + 2, Len(s))

\* The state after a call with the given result, the reference model becoming
\* newref when the call returned.
Becomes(result, newref) ==
    \E r \in {result} :
        /\ blocks' = r.d.blocks
        /\ total_size' = r.d.total_size
        /\ block_size' = r.d.block_size
        /\ ref' = IF r.err = None THEN newref ELSE ref
        /\ other' = other
        /\ calls' = calls
        /\ list' = list

\* No call of the FIFO scenario made.
NoCalls == [pushed |-> 0, popped |-> 0]

Init ==
    /\ blocks = EmptyDeque.blocks
    /\ total_size = EmptyDeque.total_size
    /\ block_size = EmptyDeque.block_size
    /\ ref = <<>>
    /\ other = EmptyDeque
    /\ calls = NoCalls
    /\ list = EmptyList

PushBack ==
    \E v \in Values :
        /\ CanAdd(v)
        /\ Becomes(push_back(D, v), Append(ref, v))

PushFront ==
    \E v \in Values :
        /\ CanAdd(v)
        /\ Becomes(push_front(D, v), <<v>> \o ref)

PopBack == Becomes(pop_back(D), SubSeq(ref, 1, Len(ref) - 1))

PopFront == Becomes(pop_front(D), SubSeq(ref, 2, Len(ref)))

\* insert(begin() + k, v); begin() + k throws for k beyond size().
Insert ==
    \E k \in 0..(total_size + 1), v \in Values :
        /\ CanAdd(v)
        /\ \E pos \in {PlusInt(D, begin(D), k)} :
               IF pos.err /= None
               THEN Becomes(pos, ref)
               ELSE Becomes(insert(D, pos.it, v), InsertAt(ref, k, v))

\* erase(begin() + k); begin() + size() is end().
Erase ==
    \E k \in 0..total_size :
        \E pos \in {PlusInt(D, begin(D), k)} :
            IF pos.err /= None
            THEN Becomes(pos, ref)
            ELSE Becomes(erase(D, pos.it), RemoveAt(ref, k))

Clear == Becomes(clear(D), <<>>)

Next == PushBack \/ PushFront \/ PopBack \/ PopFront \/ Insert \/ Erase \/ Clear

Spec == Init /\ [][Next]_vars

\* ------------------------------------------------- the deque by its shape

\* A call that leaves the deque without a Mark: its elements all alike, a state
\* is the blocks' lengths and block_size, what the positions and the
\* rebalancing pass depend on.
PlainCall == Next /\ \A i \in 1..Len(ref') : ref'[i] = Plain

SpecPlain == Init /\ [][PlainCall]_vars

\* ------------------------------------------- two instances side by side

\* A call on the first instance that leaves it within MaxPair elements.
ThisCall == Next /\ total_size' <= MaxPair

\* deque other(d): the second instance is constructed anew as a copy of the first.
CopyOther ==
    /\ other' = CopyConstruct(D).d
    /\ UNCHANGED <<blocks, total_size, block_size, ref, calls, list>>

\* other.push_back(Plain)
OtherPushBack ==
    /\ other.total_size < MaxPair
    /\ other' = push_back(other, Plain).d
    /\ UNCHANGED <<blocks, total_size, block_size, ref, calls, list>>

\* other.pop_front()
OtherPopFront ==
    /\ other' = pop_front(other).d
    /\ UNCHANGED <<blocks, total_size, block_size, ref, calls, list>>

NextTwo == ThisCall \/ CopyOther \/ OtherPushBack \/ OtherPopFront

SpecTwo == Init /\ [][NextTwo]_vars

\* ------------------------------------------------------ the FIFO scenario

\* The i-th value pushed in the FIFO scenario: the values are pairwise distinct.
V(i) == i

\* The state after a call of the FIFO scenario with the given result.
FifoBecomes(result, newref, newcalls) ==
    \E r \in {result} :
        /\ blocks' = r.d.blocks
        /\ total_size' = r.d.total_size
        /\ block_size' = r.d.block_size
        /\ ref' = IF r.err = None THEN newref ELSE ref
        /\ calls' = IF r.err = None THEN newcalls ELSE calls
        /\ other' = other
        /\ list' = list

\* push_back(v(N+1)), while no pop_front has been made.
FifoPush ==
    /\ calls.popped = 0
    /\ calls.pushed < MaxFifo
    /\ FifoBecomes(push_back(D, V(calls.pushed + 1)), Append(ref, V(calls.pushed + 1)),
                   [calls EXCEPT !.pushed = @ + 1])

\* pop_front(), while fewer elements have been popped than pushed.
FifoPop ==
    /\ calls.popped < calls.pushed
    /\ FifoBecomes(pop_front(D), SubSeq(ref, 2, Len(ref)),
                   [calls EXCEPT !.popped = @ + 1])

\* Every pushed element popped, the scenario starts again on the deque it
\* emptied, whose block_size is the one its last call left.
FifoAgain ==
    /\ calls.pushed > 0
    /\ calls.popped = calls.pushed
    /\ calls' = NoCalls
    /\ UNCHANGED <<blocks, total_size, block_size, ref, other, list>>

NextFifo == FifoPush \/ FifoPop \/ FifoAgain

SpecFifo == Init /\ [][NextFifo]_vars

\* ------------------------------------------------- a double_list alone

\* The nodes met from node p on by following field ("nxt" or "pre"), at most
\* fuel of them; Null stands in the result for a pointer to no allocated node
\* and for what lies beyond fuel nodes.
RECURSIVE Chain(_, _, _, _)
Chain(node, p, field, fuel) ==
    IF p = Null THEN <<>>
    ELSE IF fuel = 0 \/ p \notin DOMAIN node THEN <<Null>>
    ELSE <<p>> \o Chain(node, node[p][field], field, fuel - 1)

\* The nodes of l met by nxt from head, and by pre from tail.
Forward(l) == Chain(l.node, l.head, "nxt", Cardinality(DOMAIN l.node))
Backward(l) == Chain(l.node, l.tail, "pre", Cardinality(DOMAIN l.node))

\* The place in Forward(l) of the node pos names, Null for end().
IndexOf(l, p) ==
    IF p = Null THEN Null ELSE CHOOSE i \in 1..Len(Forward(l)) : Forward(l)[i] = p

\* The positions of l: its nodes and end().
Positions(l) == DOMAIN l.node \cup {list_end(l)}

\* The addresses at which new may put the next Node of l.
Free(l) == Addresses \ DOMAIN l.node

\* The state after a call on the list alone; ref holds the sequence of values
\* that the call makes of the sequence before it.
ListBecomes(l, newref) ==
    /\ list' = l
    /\ ref' = newref
    /\ UNCHANGED <<blocks, total_size, block_size, other, calls>>

DlInsertHead ==
    \E a \in Free(list), v \in Values :
        ListBecomes(insert_head(list, a, v), InsertHead(ref, v))

DlInsertTail ==
    \E a \in Free(list), v \in Values :
        ListBecomes(insert_tail(list, a, v), InsertTail(ref, v))

DlDeleteHead == ListBecomes(delete_head(list), DeleteHead(ref))

DlDeleteTail == ListBecomes(delete_tail(list), DeleteTail(ref))

DlInsert ==
    \E p \in Positions(list), a \in Free(list), v \in Values :
        ListBecomes(list_insert(list, p, a, v).l, ListInsert(ref, IndexOf(list, p), v))

DlErase ==
    \E p \in Positions(list) :
        \E r \in {list_erase(list, p)} :
            ListBecomes(r.l, IF r.err = None THEN ListErase(ref, IndexOf(list, p)) ELSE ref)

DlClear == ListBecomes(list_clear(list), <<>>)

NextList ==
    \/ DlInsertHead \/ DlInsertTail \/ DlDeleteHead \/ DlDeleteTail
    \/ DlInsert \/ DlErase \/ DlClear

SpecList == Init /\ [][NextList]_vars

\* ------------------------------------------------------------- the claims

\* insert(begin() + k, v) on deque d: the iterator arithmetic, then the insert.
InsertAtIndex(d, k, v) ==
    LET pos == PlusInt(d, begin(d), k)
    IN IF pos.err /= None THEN pos ELSE insert(d, pos.it, v)

\* erase(begin() + k) on deque d.
EraseAtIndex(d, k) ==
    LET pos == PlusInt(d, begin(d), k)
    IN IF pos.err /= None THEN pos ELSE erase(d, pos.it)

\* Iterator it of deque d dereferences to v.
DerefIs(d, it, v) == LET r == Deref(d, it) IN r.err = None /\ r.val = v

\* Iterator it of deque d is k elements after begin().
OffsetIs(d, it, k) == LET r == Diff(d, it, begin(d)) IN r.err = None /\ r.val = k

\* The logical sequence of the current state.
Logical == Concat(blocks)

\* C1: after any sequence of successful push_back, push_front, pop_back,
\* pop_front, insert(begin()+k, v) and erase(begin()+k) calls on an empty deque,
\* the blocks' items concatenated in block order are the sequence the same calls
\* give on a flat array.
C1_ConcatIsReference == Concat(blocks) = ref

\* C1's case: the calls have left three blocks or more holding the nine elements
\* at which a pass first splits a block, the tracked element after the first block.
C1_Witness ==
    /\ Len(blocks) >= 3
    /\ ISqrt(total_size) >= 3
    /\ \E b \in 2..Len(blocks) : \E i \in 1..Len(blocks[b]) : blocks[b][i] = Mark

\* C2: after every call, returned or thrown, size() is the sum of the blocks'
\* item counts and the length of the reference sequence.
C2_SizeIsSum ==
    /\ total_size = SumSizes(blocks, 1, Len(blocks))
    /\ total_size = Len(ref)

\* C2's case: a deque of several blocks on which pop_back returns and
\* erase(end()) throws, both leaving size() the sum and the reference length.
C2_Witness ==
    /\ Len(blocks) >= 2
    /\ total_size >= 5
    /\ pop_back(D).err = None
    /\ pop_back(D).d.total_size = SumSizes(pop_back(D).d.blocks, 1, Len(pop_back(D).d.blocks))
    /\ erase(D, end(D)).err /= None
    /\ erase(D, end(D)).d = D

\* C3: after a mutating call returns, no block of the block list has zero items.
C3_NoEmptyBlock == \A b \in 1..Len(blocks) : Len(blocks[b]) > 0

\* C3's case: an erase takes the only item of a middle block, which is removed
\* without a rebalancing scan, and no block is left empty.
C3_Witness ==
    \E k \in 0..(total_size - 1) :
        LET r == EraseAtIndex(D, k)
        IN /\ r.err = None
           /\ Len(r.d.blocks) = Len(blocks) - 1
           /\ Len(r.d.blocks) >= 2
           /\ r.d.block_size = block_size
           /\ \A b \in 1..Len(r.d.blocks) : Len(r.d.blocks[b]) > 0

\* C4: at(i) returns the i-th element of the reference sequence for every
\* 0 <= i < size(), however the elements lie in blocks.
C4_AtIsReference ==
    \A i \in 0..(total_size - 1) :
        LET r == at(D, i) IN r.err = None /\ r.val = ref[i + 1]

\* C4's case: at() walks past two blocks to the tracked element.
C4_Witness ==
    /\ Len(blocks) >= 3
    /\ \E i \in 0..(total_size - 1) :
           /\ i >= Len(blocks[1]) + Len(blocks[2])
           /\ at(D, i).val = Mark

\* C5 as claimed: at(i) with i >= size() fails with the index-out-of-bound kind
\* of exceptions.hpp and returns no element.  deque::at throws
\* std::out_of_range instead.
C5_AtBeyondIsIndexOutOfBound ==
    \A i \in total_size..(total_size + Beyond) :
        LET r == at(D, i) IN r.err = IndexOutOfBound /\ r.val = Null

\* C6 as claimed: on a deque of size 0, front(), back(), pop_back() and
\* pop_front() each fail with the empty-container kind, which is neither the kind
\* at() fails with nor the kind insert() and erase() fail with.  deque.hpp
\* throws std::out_of_range in all of them.
C6_EmptyIsContainerIsEmpty ==
    total_size = 0 =>
        \A r \in {front(D), back(D), pop_back(D), pop_front(D)} :
            /\ r.err = ContainerIsEmpty
            /\ r.err /= at(D, total_size).err
            /\ r.err /= erase(D, end(D)).err

\* C7: insert(end(), v) on a deque with no blocks returns, leaves exactly one
\* block holding exactly v, size() = 1 and at(0) = v, and returns an iterator
\* that dereferences to v.
C7_InsertIntoEmpty ==
    Len(blocks) = 0 =>
        \A v \in Values :
            LET r == insert(D, end(D), v)
            IN /\ r.err = None
               /\ r.d.blocks = <<<<v>>>>
               /\ r.d.total_size = 1
               /\ at(r.d, 0).err = None /\ at(r.d, 0).val = v
               /\ DerefIs(r.d, r.it, v)

\* C7's case: the deque was emptied by pops and erases, which leave block_size
\* below its initial value, and insert(end(), Mark) makes its first block.
C7_Witness ==
    /\ Len(blocks) = 0
    /\ block_size /= InitialBlockSize
    /\ insert(D, end(D), Mark).d.blocks = <<<<Mark>>>>

\* C8: on a non-empty deque, for every 0 <= k <= size(), insert(begin()+k, v)
\* puts v at logical index k, the former elements k.. one higher, and returns an
\* iterator r with *r = v and r - begin() = k, also when the rebalancing pass it
\* runs splits or merges blocks.
C8_InsertAtIndex ==
    total_size > 0 =>
        \A k \in 0..total_size, v \in Values :
            LET r == InsertAtIndex(D, k, v)
            IN /\ r.err = None
               /\ Concat(r.d.blocks) = InsertAt(Logical, k, v)
               /\ r.d.total_size = total_size + 1
               /\ DerefIs(r.d, r.it, v)
               /\ OffsetIs(r.d, r.it, k)

\* C8's case: an insert into a non-empty deque has the rebalancing pass split
\* a block, and the iterator returned lies in the new block.
C8_Witness ==
    /\ total_size > 0
    /\ \E k \in 0..total_size :
           LET r == InsertAtIndex(D, k, Mark)
           IN /\ Len(r.d.blocks) > Len(blocks)
              /\ r.it.block_it > 1
              /\ r.it.item_it > 1

\* C9: for every 0 <= k < size(), erase(begin()+k) removes exactly the element
\* at logical index k and returns end() if k was the last index, otherwise an
\* iterator to the element that followed (now at index k), also when a block was
\* removed or the rebalancing pass restructured the blocks.
C9_EraseAtIndex ==
    \A k \in 0..(total_size - 1) :
        LET r == EraseAtIndex(D, k)
        IN /\ r.err = None
           /\ Concat(r.d.blocks) = RemoveAt(Logical, k)
           /\ r.d.total_size = total_size - 1
           /\ IF k = total_size - 1
              THEN ItEq(r.it, end(r.d))
              ELSE DerefIs(r.d, r.it, Logical[k + 2]) /\ OffsetIs(r.d, r.it, k)

\* C9's case: one erase empties a block and removes it, another has the
\* rebalancing pass merge blocks, and the element after the erased one is the
\* tracked one.
C9_Witness ==
    \E k \in 0..(total_size - 2) :
        LET r == EraseAtIndex(D, k)
        IN /\ Logical[k + 2] = Mark
           /\ Len(r.d.blocks) < Len(blocks)
           /\ r.d.block_size /= block_size
           /\ r.it.block_it > 1

\* insert(begin() + k, v) and then erase of the iterator it returned.
RoundTrip(d, k, v) ==
    LET r == InsertAtIndex(d, k, v)
    IN IF r.err /= None THEN r ELSE erase(r.d, r.it)

\* C10: for every valid position begin()+k, 0 <= k <= size(), and value v, insert
\* at the position and then erase at the iterator returned leave the logical
\* sequence and size() as they were.
C10_RoundTrip ==
    \A k \in 0..total_size, v \in Values :
        LET r == RoundTrip(D, k, v)
        IN /\ r.err = None
           /\ Concat(r.d.blocks) = Logical
           /\ r.d.total_size = total_size

\* C10's case: the round trip restores the sequence and leaves other blocks
\* than before, the tracked element among the elements after the position.
C10_Witness ==
    \E k \in 0..(total_size - 1) :
        /\ RoundTrip(D, k, Plain).d.blocks /= blocks
        /\ Concat(RoundTrip(D, k, Plain).d.blocks) = Logical
        /\ \E i \in (k + 1)..total_size : Logical[i] = Mark

\* The iterators a caller holds that the first instance did not give out: a
\* default-constructed one, and begin(), begin() + k and end() of the second
\* instance.
ForeignIts ==
    {NullIt} \cup {Foreign(PlusInt(other, begin(other), k).it) : k \in 0..other.total_size}

\* C11 as claimed: insert(pos, v) fails with the invalid-position kind, and
\* inserts nothing, whenever pos is a default-constructed iterator or an iterator
\* of another instance, either deque empty or not.  On a deque without blocks
\* insert compares pos with end() by its two null node pointers only, and
\* returns for a default iterator and for an iterator of an empty instance;
\* where it throws, it throws std::out_of_range.
C11_InsertForeignIsInvalidIterator ==
    \A pos \in ForeignIts, v \in Values :
        LET r == insert(D, pos, v)
        IN r.err = InvalidIterator /\ r.d = D

\* C12 as claimed: erase(pos) fails with the invalid-position kind when pos is
\* end() of this deque or an iterator of another instance, and removes nothing.
\* erase throws std::out_of_range in these cases.
C12_EraseEndOrForeignIsInvalidIterator ==
    \A pos \in {end(D)} \cup (ForeignIts \ {NullIt}) :
        LET r == erase(D, pos)
        IN r.err = InvalidIterator /\ r.d = D

\* ++ applied n times to iterator it of deque d.
RECURSIVE Increments(_, _, _)
Increments(d, it, n) ==
    IF n = 0 THEN OkIt(d, it)
    ELSE LET r == PlusPlus(d, it)
         IN IF r.err /= None THEN r ELSE Increments(d, r.it, n - 1)

\* C13: for the iterator it at logical offset k (begin() incremented k times) of
\* a deque of size s and every 0 <= n <= s - k, it + n returns the iterator that
\* n increments of it give, which is end() for n = s - k, and (it + n) - n
\* returns it, however the elements lie in blocks.
C13_PlusIsIncrements ==
    \A k \in 0..total_size :
        LET it == Increments(D, begin(D), k)
        IN /\ it.err = None
           /\ \A n \in 0..(total_size - k) :
                  LET plus == PlusInt(D, it.it, n)
                      incs == Increments(D, it.it, n)
                      minus == MinusInt(D, plus.it, n)
                  IN /\ plus.err = None /\ incs.err = None
                     /\ ItEq(plus.it, incs.it)
                     /\ n = total_size - k => ItEq(plus.it, end(D))
                     /\ minus.err = None
                     /\ ItEq(minus.it, it.it)

\* C13's case: from an iterator inside the first block, it + n crosses a whole
\* block and lands on the first item of a later one, and it + (s - k) is end().
C13_Witness ==
    /\ Len(blocks) >= 3
    /\ \E k \in 1..(Len(blocks[1]) - 1) :
           LET it == Increments(D, begin(D), k).it
               n == Len(blocks[1]) - k + Len(blocks[2])
           IN /\ it.block_it = 1
              /\ PlusInt(D, it, n).it = Iter(1, 3, This)
              /\ ItEq(MinusInt(D, PlusInt(D, it, n).it, n).it, it)
              /\ ItEq(PlusInt(D, it, total_size - k).it, end(D))

\* C14 as claimed: in every state, the empty deque included, and for all
\* 0 <= i, j <= size(), (begin() + i) - (begin() + j) returns i - j (a negative
\* difference being that value wrapped into size_t).  On a deque without blocks
\* begin() holds a null block pointer and operator- throws.
C14_DifferenceIsIMinusJ ==
    \A i \in 0..total_size, j \in 0..total_size :
        LET r == Diff(D, PlusInt(D, begin(D), i).it, PlusInt(D, begin(D), j).it)
        IN r.err = None /\ r.val = i - j

\* The iterators of the first instance: begin() + k for 0 <= k <= size().
OwnIts == {PlusInt(D, begin(D), k).it : k \in 0..total_size}

\* C15 as claimed: ++ on end(), -- on begin(), it + n beyond end() and it - n
\* before begin() each fail with the index-out-of-bound kind, on the empty deque
\* as on a non-empty one.  They throw std::out_of_range, and on a deque without
\* blocks -- and it - n read through the null blocks.get_tail().
C15_MovementBeyondIsIndexOutOfBound ==
    /\ PlusPlus(D, end(D)).err = IndexOutOfBound
    /\ MinusMinus(D, begin(D)).err = IndexOutOfBound
    /\ \A k \in 0..total_size, n \in 1..Beyond :
           LET it == PlusInt(D, begin(D), k).it
           IN /\ PlusInt(D, it, total_size - k + n).err = IndexOutOfBound
              /\ MinusInt(D, it, k + n).err = IndexOutOfBound

\* C16 as claimed: a - b fails with the invalid-position kind whenever a and b
\* are iterators of different instances, either instance empty or not.
\* operator- throws std::out_of_range, at once when a block pointer is null and
\* otherwise after both walks over the block chains have reached blocks.end().
C16_DifferenceAcrossIsInvalidIterator ==
    \A a \in OwnIts, b \in ForeignIts \ {NullIt} :
        /\ Diff(D, a, b).err = InvalidIterator
        /\ Diff(D, b, a).err = InvalidIterator

\* The deques left by the calls on d that end with a rebalancing pass: the
\* pushes, the pops of a non-empty deque, insert into a deque with blocks, and
\* erase of an element that is not the last.
AfterPass(d) ==
    {push_back(d, v).d : v \in Values}
    \cup {push_front(d, v).d : v \in Values}
    \cup {r.d : r \in {c \in {pop_back(d), pop_front(d)} : c.err = None}}
    \cup {InsertAtIndex(d, k, v).d :
              k \in (IF Len(d.blocks) = 0 THEN {} ELSE 0..d.total_size), v \in Values}
    \cup {EraseAtIndex(d, k).d : k \in 0..(d.total_size - 2)}

\* C17 as claimed: when a call's rebalancing pass has completed, no block has
\* more than 2 * block_size items, block_size being the value the pass computed.
\* A pass that computes the block size it already had scans nothing, and inserts
\* into one block take it past the bound.
C17_NoBlockAboveTwiceBlockSize ==
    \A d \in AfterPass(D) :
        \A b \in 1..Len(d.blocks) : Len(d.blocks[b]) <= 2 * d.block_size

\* C18 as claimed: when a call's rebalancing pass has completed, no block has
\* fewer than block_size / 2 items (the quotient rounded down, the reading the
\* fewest blocks fall under).  Merge leaves the last block alone, and any block
\* whose successor would take it above block_size.
C18_NoBlockBelowHalfBlockSize ==
    \A d \in AfterPass(D) :
        \A b \in 1..Len(d.blocks) : Len(d.blocks[b]) >= d.block_size \div 2

\* A call with result r left the first instance as it was, if it threw.
KeptIfThrown(r) == r.err \notin {None, Undefined} => r.d = D

\* C19: every call that fails (at, front, back, pop_back, pop_front, insert and
\* erase at the deque's own and at foreign iterators, iterator movement, and
\* difference of two iterators not both of the second instance, throwing an
\* exception) leaves total_size, block_size, the block list and every block's
\* items as they were before the call.
C19_FailureChangesNothing ==
    /\ \A i \in 0..(total_size + Beyond) : KeptIfThrown(at(D, i))
    /\ KeptIfThrown(front(D)) /\ KeptIfThrown(back(D))
    /\ KeptIfThrown(pop_back(D)) /\ KeptIfThrown(pop_front(D))
    /\ \A pos \in OwnIts \cup ForeignIts :
           /\ \A v \in Values : KeptIfThrown(insert(D, pos, v))
           /\ KeptIfThrown(erase(D, pos))
           /\ \A rhs \in OwnIts \cup ForeignIts :
                  \/ pos.outer = Elsewhere /\ rhs.outer = Elsewhere
                  \/ KeptIfThrown(Diff(D, pos, rhs))
    /\ \A it \in OwnIts :
           /\ KeptIfThrown(PlusPlus(D, it)) /\ KeptIfThrown(MinusMinus(D, it))
           /\ \A n \in 0..(total_size + Beyond) :
                  KeptIfThrown(PlusInt(D, it, n)) /\ KeptIfThrown(MinusInt(D, it, n))

\* C19's case: on a deque of several blocks, beside a non-empty second
\* instance, at(size()), erase(end()), insert and erase at a foreign iterator
\* and begin() - 1 all throw, and an erase that returns takes an element away.
C19_Witness ==
    /\ Len(blocks) >= 2
    /\ other.total_size > 0
    /\ at(D, total_size).err = StdOutOfRange
    /\ erase(D, end(D)).err = StdOutOfRange /\ erase(D, end(D)).d = D
    /\ insert(D, Foreign(begin(other)), Mark).err = StdOutOfRange
    /\ insert(D, Foreign(begin(other)), Mark).d = D
    /\ erase(D, Foreign(begin(other))).err = StdOutOfRange
    /\ MinusInt(D, begin(D), 1).err = StdOutOfRange
    /\ erase(D, begin(D)).err = None /\ erase(D, begin(D)).d /= D

\* C20 as claimed: the deque that copy construction from the first instance
\* gives, and the one that copy assignment of it to the second instance gives,
\* each exist and have the first instance's logical sequence, size and block
\* layout.  The copy constructor gives such a deque; operator= does not compile,
\* so no assignment gives any.
C20_CopyIsEqual ==
    \A c \in {CopyConstruct(D), CopyAssign(other, D)} :
        /\ c.err = None
        /\ Concat(c.d.blocks) = Logical
        /\ c.d.total_size = total_size
        /\ c.d.blocks = blocks

\* C21: after push_back of v1..vN onto an empty deque and then M <= N calls of
\* pop_front, size() is N - M and, when N > M, front() and at(0) are v(M+1) and
\* back() and at(N-M-1) are vN.
C21_Fifo ==
    LET N == calls.pushed
        M == calls.popped
    IN /\ total_size = N - M
       /\ N > M =>
              /\ front(D).err = None /\ front(D).val = V(M + 1)
              /\ at(D, 0).err = None /\ at(D, 0).val = V(M + 1)
              /\ back(D).err = None /\ back(D).val = V(N)
              /\ at(D, N - M - 1).err = None /\ at(D, N - M - 1).val = V(N)

\* C21's case: MaxFifo elements pushed and half of them popped, the pops
\* having emptied a block and the remaining elements lying in several blocks.
C21_Witness ==
    /\ calls.pushed = MaxFifo
    /\ calls.popped = MaxFifo \div 2
    /\ Len(blocks) >= 2
    /\ blocks[1][1] = V(MaxFifo \div 2 + 1)
    /\ front(D).val = V(MaxFifo \div 2 + 1)
    /\ back(D).val = V(MaxFifo)

\* The deques that a returning insert into a deque without blocks and a
\* returning erase of the last element give: the calls that return before
\* Balance (lines 1057-1062, 1107-1108).
WithoutPass(d) ==
    {InsertAtIndex(d, 0, v).d : v \in (IF Len(d.blocks) = 0 THEN Values ELSE {})}
    \cup {EraseAtIndex(d, k).d : k \in {d.total_size - 1} \cap Nat}

Addable(d) ==
    IF \E b \in 1..Len(d.blocks) : \E i \in 1..Len(d.blocks[b]) : d.blocks[b][i] = Mark
    THEN {Plain}
    ELSE Values

\* The deques on which the calls on d that return run Balance: each call's
\* changes made, the pass not yet run.
BeforePass(d) ==
    {push_back_put(d, v) : v \in Addable(d)}
    \cup {push_front_put(d, v) : v \in Addable(d)}
    \cup (IF pop_back(d).err = None THEN {pop_back_take(d), pop_front_take(d)} ELSE {})
    \cup {insert_put(d, PlusInt(d, begin(d), k).it, v) :
              k \in (IF Len(d.blocks) = 0 THEN {} ELSE 0..d.total_size), v \in Addable(d)}
    \cup {erase_take(d, PlusInt(d, begin(d), k).it) : k \in 0..(d.total_size - 2)}

\* C23: Balance changes neither the logical sequence nor total_size: on every
\* deque a call runs it on, the concatenation of the blocks' items is the same
\* after the pass as before it, whatever splits and merges the pass made.
C23_BalanceKeepsSequence ==
    \A p \in BeforePass(D) :
        /\ Concat(Balance(p).blocks) = Concat(p.blocks)
        /\ Balance(p).total_size = p.total_size

\* C23's case: a state one call's pass of which splits a block, and another
\* call's pass of which merges two.
C23_Witness ==
    /\ \E p \in BeforePass(D) : Len(Balance(p).blocks) > Len(p.blocks)
    /\ \E p \in BeforePass(D) : Len(Balance(p).blocks) < Len(p.blocks)
    /\ \E i \in 1..Len(ref) : ref[i] = Mark

\* C24: Balance changes nothing, block_size included, on a deque without
\* blocks; on any other it sets block_size to floor(sqrt(total_size)) + 1, and
\* when that is the block_size it had, it leaves the blocks as they were.
C24_BalanceWhenUnchanged ==
    \A p \in BeforePass(D) :
        IF Len(p.blocks) = 0 THEN Balance(p) = p
        ELSE /\ Balance(p).block_size = ISqrt(p.total_size) + 1
             /\ ISqrt(p.total_size) + 1 = p.block_size => Balance(p).blocks = p.blocks

\* C24's case: a call's pass computes the block_size the deque already has over
\* blocks that a scan under it would have changed, and another call's pass
\* computes a new one.
C24_Witness ==
    /\ \E p \in BeforePass(D) :
           /\ Len(p.blocks) > 0
           /\ ISqrt(p.total_size) + 1 = p.block_size
           /\ Scan(p.blocks, p.block_size, 1) /= p.blocks
           /\ Balance(p) = p
    /\ \E p \in BeforePass(D) :
           /\ Len(p.blocks) > 0
           /\ Balance(p).block_size /= p.block_size

\* Balance's while loop from block i until it reaches block stop.
RECURSIVE ScanUntil(_, _, _, _)
ScanUntil(bl, bs, i, stop) ==
    IF i > Len(bl) \/ i >= stop THEN bl
    ELSE ScanUntil(ScanStep(bl, bs, i), bs, i + 1, stop)

\* The visits of the passes that the calls on d run: the block list bl as the
\* scan under the new block size bs finds it on reaching block i.
Visits(d) ==
    {w \in {[bl |-> ScanUntil(p.blocks, ISqrt(p.total_size) + 1, 1, i),
             bs |-> ISqrt(p.total_size) + 1,
             i |-> i] :
                 p \in {q \in BeforePass(d) : /\ Len(q.blocks) > 0
                                              /\ ISqrt(q.total_size) + 1 /= q.block_size},
                 i \in 1..(d.total_size + 1)} :
        w.i <= Len(w.bl)}

\* C25: when a pass splits a block of n items (n > 2 * block_size), the block
\* keeps its first floor(n/2) items in order, and exactly one new block holding
\* the other n - floor(n/2) items in order comes right after it, the other
\* blocks staying as they were and in their order.
C25_SplitInHalf ==
    \A w \in Visits(D) :
        LET n == Len(w.bl[w.i])
            after == ScanStep(w.bl, w.bs, w.i)
        IN n > 2 * w.bs =>
               /\ Len(after) = Len(w.bl) + 1
               /\ after[w.i] = SubSeq(w.bl[w.i], 1, n \div 2)
               /\ after[w.i + 1] = SubSeq(w.bl[w.i], n \div 2 + 1, n)
               /\ Len(after[w.i + 1]) = n - n \div 2
               /\ \A j \in 1..(w.i - 1) : after[j] = w.bl[j]
               /\ \A j \in (w.i + 1)..Len(w.bl) : after[j + 1] = w.bl[j]

\* C25's case: a pass splits a block of an odd number of items, the Mark among
\* those it moves, that has a successor.
C25_Witness ==
    \E w \in Visits(D) :
        /\ Len(w.bl[w.i]) > 2 * w.bs
        /\ Len(w.bl[w.i]) % 2 = 1
        /\ w.i < Len(w.bl)
        /\ \E k \in 1..Len(ScanStep(w.bl, w.bs, w.i)[w.i + 1]) :
               ScanStep(w.bl, w.bs, w.i)[w.i + 1][k] = Mark

\* C26: during a pass, a block of fewer than block_size / 2 items is merged
\* with its immediate successor exactly when it has one and the two together
\* hold at most block_size items; the successor's items are then appended in
\* order and the successor removed; otherwise the block list stays as it was.
C26_MergeWhenItFits ==
    \A w \in Visits(D) :
        LET n == Len(w.bl[w.i])
            after == ScanStep(w.bl, w.bs, w.i)
        IN n * 2 < w.bs =>
               IF w.i < Len(w.bl) /\ n + Len(w.bl[w.i + 1]) <= w.bs
               THEN /\ Len(after) = Len(w.bl) - 1
                    /\ after[w.i] = w.bl[w.i] \o w.bl[w.i + 1]
                    /\ \A j \in 1..(w.i - 1) : after[j] = w.bl[j]
                    /\ \A j \in (w.i + 2)..Len(w.bl) : after[j - 1] = w.bl[j]
               ELSE after = w.bl

\* C26's case: one pass merges a small block with its successor, the two
\* holding exactly block_size items, and a pass leaves a small block that has a
\* successor alone.
C26_Witness ==
    /\ \E w \in Visits(D) :
           /\ Len(w.bl[w.i]) * 2 < w.bs
           /\ w.i < Len(w.bl)
           /\ Len(w.bl[w.i]) + Len(w.bl[w.i + 1]) = w.bs
           /\ Len(ScanStep(w.bl, w.bs, w.i)) = Len(w.bl) - 1
    /\ \E w \in Visits(D) :
           /\ Len(w.bl[w.i]) * 2 < w.bs
           /\ w.i < Len(w.bl)
           /\ Len(w.bl[w.i]) + Len(w.bl[w.i + 1]) > w.bs

\* C27: push_back (push_front) adds a new block at the tail (head) exactly when
\* the deque has no block or its tail (head) block holds at least block_size
\* items, block_size being the value cached before the call; the new block then
\* holds the value alone; otherwise the value goes to the end (front) of the
\* existing tail (head) block and the push, before its pass, adds no block.
C27_PushOpensBlockWhenFull ==
    \A v \in Values :
        LET n == Len(blocks)
            pb == push_back_put(D, v).blocks
            pf == push_front_put(D, v).blocks
        IN /\ IF n = 0 \/ Len(blocks[n]) >= block_size
              THEN pb = blocks \o << <<v>> >>
              ELSE pb = SubSeq(blocks, 1, n - 1) \o << blocks[n] \o <<v>> >>
           /\ IF n = 0 \/ Len(blocks[1]) >= block_size
              THEN pf = << <<v>> >> \o blocks
              ELSE pf = << <<v>> \o blocks[1] >> \o SubSeq(blocks, 2, n)
           /\ Len(pb) = n + 1 <=> (n = 0 \/ Len(blocks[n]) >= block_size)
           /\ Len(pf) = n + 1 <=> (n = 0 \/ Len(blocks[1]) >= block_size)

\* C27's case: several blocks, the tail block holding exactly block_size items
\* and the head block fewer: push_back opens a block, push_front does not.
C27_Witness ==
    /\ Len(blocks) >= 2
    /\ Len(blocks[Len(blocks)]) = block_size
    /\ Len(blocks[1]) < block_size
    /\ Len(push_back_put(D, Mark).blocks) = Len(blocks) + 1
    /\ Len(push_front_put(D, Mark).blocks) = Len(blocks)
    /\ push_front_put(D, Mark).blocks[1][1] = Mark

\* C28: end() is the pair (last block, that block's item-end marker) when the
\* deque is non-empty, and the pair (null, null) only when it has no blocks;
\* begin() == end() exactly when size() is 0; on a non-empty deque
\* begin() + size() returns end().
C28_EndIsPastLastBlock ==
    /\ total_size > 0 =>
           /\ end(D).block_it = ListGetTail(blocks)
           /\ end(D).block_it /= Null
           /\ ListAdvance(blocks[end(D).block_it],
                          ListGetTail(blocks[end(D).block_it]), 1).p = end(D).item_it
    /\ (end(D).block_it = Null /\ end(D).item_it = Null) => Len(blocks) = 0
    /\ ItEq(begin(D), end(D)) <=> total_size = 0
    /\ total_size > 0 =>
           /\ PlusInt(D, begin(D), total_size).err = None
           /\ ItEq(PlusInt(D, begin(D), total_size).it, end(D))

\* C28's case: a deque of several blocks, whose end() names the last block,
\* differs from begin() and is what begin() + size() crosses the blocks to.
C28_Witness ==
    /\ Len(blocks) >= 3
    /\ end(D).block_it = Len(blocks)
    /\ ~ItEq(begin(D), end(D))
    /\ ItEq(PlusInt(D, begin(D), total_size).it, end(D))
    /\ ~ItEq(PlusInt(D, begin(D), total_size - 1).it, end(D))

\* n applications of -- from it.
RECURSIVE Decrements(_, _, _)
Decrements(d, it, n) ==
    IF n = 0 THEN OkIt(d, it)
    ELSE LET r == MinusMinus(d, it)
         IN IF r.err /= None THEN r ELSE Decrements(d, r.it, n - 1)

\* C29: on a deque of size s, begin() incremented k < s times dereferences to
\* at(k) and is not end(), and incremented s times is end(); end() decremented
\* k times, 1 <= k <= s, dereferences to at(s - k), is begin() for k = s and is
\* not begin() for k < s, whatever block boundaries lie between.
C29_SteppingVisitsAll ==
    /\ \A k \in 0..(total_size - 1) :
           LET f == Increments(D, begin(D), k)
           IN /\ f.err = None
              /\ ~ItEq(f.it, end(D))
              /\ Deref(D, f.it).err = None /\ at(D, k).err = None
              /\ Deref(D, f.it).val = at(D, k).val
              /\ Deref(D, f.it).val = Logical[k + 1]
    /\ Increments(D, begin(D), total_size).err = None
    /\ ItEq(Increments(D, begin(D), total_size).it, end(D))
    /\ \A k \in 1..total_size :
           LET b == Decrements(D, end(D), k)
           IN /\ b.err = None
              /\ Deref(D, b.it).err = None /\ at(D, total_size - k).err = None
              /\ Deref(D, b.it).val = at(D, total_size - k).val
              /\ Deref(D, b.it).val = Logical[total_size - k + 1]
              /\ ItEq(b.it, begin(D)) <=> k = total_size
    /\ ItEq(Decrements(D, end(D), total_size).it, begin(D))

\* C29's case: a deque of at least three blocks holding the Mark in a middle
\* one: stepping forward and backward both cross two block boundaries and find
\* the Mark at its index.
C29_Witness ==
    /\ Len(blocks) >= 3
    /\ \E k \in 0..(total_size - 1) :
           /\ Logical[k + 1] = Mark
           /\ Increments(D, begin(D), k).it.block_it = 2
           /\ Deref(D, Increments(D, begin(D), k).it).val = Mark
           /\ Deref(D, Decrements(D, end(D), total_size - k).it).val = Mark
           /\ at(D, k).val = Mark
    /\ ItEq(Increments(D, begin(D), total_size).it, end(D))
    /\ ItEq(Decrements(D, end(D), total_size).it, begin(D))

\* The iterators of the second instance: its begin() + k, 0 <= k <= its size().
OtherIts == {Foreign(PlusInt(other, begin(other), k).it) : k \in 0..other.total_size}

\* C30 as claimed: within one deque begin() + i == begin() + j exactly when
\* i = j (0 <= i, j <= size()), and no iterator of one deque compares equal to
\* an iterator of another.  The iterators of two deques without blocks all hold
\* two null pointers and compare equal.
C30_EqualitySeparatesDeques ==
    /\ \A i, j \in 0..total_size :
           ItEq(PlusInt(D, begin(D), i).it, PlusInt(D, begin(D), j).it) <=> i = j
    /\ \A a \in OwnIts, b \in OtherIts : ~ItEq(a, b)

\* C30, amended: within one deque begin() + i == begin() + j exactly when i = j
\* (0 <= i, j <= size()); an iterator of one deque compares equal to an
\* iterator of another exactly when both deques are empty.
C30_EqualityIsPosition ==
    /\ \A i, j \in 0..total_size :
           /\ PlusInt(D, begin(D), i).err = None
           /\ ItEq(PlusInt(D, begin(D), i).it, PlusInt(D, begin(D), j).it) <=> i = j
    /\ \A a \in OwnIts, b \in OtherIts :
           /\ ItEq(a, b) <=> (total_size = 0 /\ other.total_size = 0)
           /\ ItEq(b, a) <=> ItEq(a, b)

\* C30's case: the second instance is a copy of the first, of several blocks, so
\* that each iterator of one has its like in the other, which it differs from,
\* while it equals itself and differs from its neighbour in its own deque.
C30_Witness ==
    /\ Len(blocks) >= 2
    /\ other = D
    /\ \A k \in 0..total_size :
           LET a == PlusInt(D, begin(D), k).it
               b == Foreign(PlusInt(other, begin(other), k).it)
           IN /\ a.block_it = b.block_it /\ a.item_it = b.item_it
              /\ ~ItEq(a, b)
              /\ ItEq(a, a)
              /\ k > 0 => ~ItEq(a, PlusInt(D, begin(D), k - 1).it)

\* The calls a run is made of: the pushes, the pops, insert at begin() and at
\* begin() + 1, erase at begin() and at(0), each observed by the exception thrown, the value and
\* the iterator returned.
RunCalls ==
    {<<"push_back", v>> : v \in Values} \cup {<<"push_front", Plain>>}
    \cup {<<"pop_back", Null>>, <<"pop_front", Null>>}
    \cup {<<"insert", k>> : k \in 0..1} \cup {<<"erase", Null>>, <<"at", Null>>}

\* The result of one call of RunCalls on deque d.
Call(d, c) ==
    CASE c[1] = "push_back" -> push_back(d, c[2])
      [] c[1] = "push_front" -> push_front(d, c[2])
      [] c[1] = "pop_back" -> pop_back(d)
      [] c[1] = "pop_front" -> pop_front(d)
      [] c[1] = "insert" -> InsertAtIndex(d, c[2], Mark)
      [] c[1] = "erase" -> EraseAtIndex(d, 0)
      [] c[1] = "at" -> at(d, 0)

\* The results, in order, of the calls of sequence cs made one after another
\* from deque d.
RECURSIVE Run(_, _)
Run(d, cs) ==
    IF Len(cs) = 0 THEN <<>>
    ELSE LET r == Call(d, Head(cs)) IN <<r>> \o Run(r.d, Tail(cs))

\* The sequences of one call and of two calls.
Runs == {<<a>> : a \in RunCalls} \cup {<<a, b>> : a, b \in RunCalls}

\* C31: clear() returns and leaves no block, size() 0, empty() true and
\* block_size 4, the deque a freshly constructed one is, and every sequence of
\* one or two calls made after it gives, call by call, the results and deques
\* that it gives on a freshly constructed deque.
C31_ClearIsFresh ==
    LET c == clear(D)
    IN /\ c.err = None
       /\ Len(c.d.blocks) = 0
       /\ c.d.total_size = 0
       /\ c.d.block_size = 4
       /\ c.d = EmptyDeque
       /\ \A cs \in Runs : Run(c.d, cs) = Run(EmptyDeque, cs)

\* C31's case: clear() on a deque of several blocks whose block_size is not 4;
\* insert(end(), Mark) after it leaves block_size 4, as on a fresh deque.
C31_Witness ==
    /\ Len(blocks) >= 3
    /\ block_size /= 4
    /\ clear(D).d = EmptyDeque
    /\ insert(clear(D).d, end(clear(D).d), Mark).d.block_size = 4
    /\ insert(clear(D).d, end(clear(D).d), Mark).d.blocks = << <<Mark>> >>

\* s in reverse.
Reverse(s) == [i \in 1..Len(s) |-> s[Len(s) + 1 - i]]

\* The values read along nxt from head are the sequence that the calls make,
\* and an iterator moves along it as an index does.
ListRefines ==
    /\ Len(Forward(list)) = Len(ref)
    /\ \A i \in 1..Len(ref) : list.node[Forward(list)[i]].data = ref[i]
    /\ IndexOf(list, list_begin(list)) = ListBegin(ref)
    /\ IndexOf(list, list_get_tail(list)) = ListGetTail(ref)
    /\ \A p \in Positions(list) :
           /\ list_inc(list, p).err = ListAdvance(ref, IndexOf(list, p), 1).err
           /\ IndexOf(list, list_inc(list, p).it)
                  = ListAdvance(ref, IndexOf(list, p), 1).p
           /\ list_dec(list, p).err = ListRetreat(ref, IndexOf(list, p), 1).err
           /\ IndexOf(list, list_dec(list, p).it)
                  = ListRetreat(ref, IndexOf(list, p), 1).p

\* C32: after any sequence of insert_head, insert_tail, delete_head,
\* delete_tail, insert, erase and clear, following nxt from head visits every
\* node exactly once and ends at tail, following pre from tail visits the same
\* nodes in reverse order, head and tail are both null exactly when the list has
\* no node, and size() is the number of nodes visited.
C32_ChainsAgree ==
    LET f == Forward(list)
        n == Cardinality(DOMAIN list.node)
    IN /\ Len(f) = n
       /\ {f[i] : i \in 1..Len(f)} = DOMAIN list.node
       /\ n > 0 => f[1] = list.head /\ f[n] = list.tail
       /\ Backward(list) = Reverse(f)
       /\ (list.head = Null /\ list.tail = Null) <=> n = 0
       /\ list.head = Null <=> list.tail = Null
       /\ list.size_ = Len(f)

\* C32's case: a list of three nodes whose addresses are not in the order of
\* the chain, as head inserts, inserts in the middle and reuse after erase make
\* it, and whose middle node holds the Mark.
C32_Witness ==
    /\ list.size_ = 3
    /\ Len(Forward(list)) = 3
    /\ Forward(list)[1] > Forward(list)[2]
    /\ Forward(list)[3] < Forward(list)[2]
    /\ Backward(list) = Reverse(Forward(list))
    /\ list.node[Forward(list)[2]].data = Mark
    /\ list.node[list.head].pre = Null /\ list.node[list.tail].nxt = Null

\* The values of the nodes of l named in chain c.
DataOf(l, c) == [i \in 1..Len(c) |-> l.node[c[i]].data]

\* insert(pos, v) puts a new node holding v immediately before the node at
\* pos, at the end when pos is the end marker, leaves every other node in its
\* place with its value, and returns the position of the new node.
InsertPlacesBefore ==
    LET f == Forward(list)
    IN \A p \in Positions(list), a \in Free(list), v \in Values :
           LET r == list_insert(list, p, a, v)
               k == IF p = Null THEN Len(f) + 1 ELSE IndexOf(list, p)
           IN /\ r.err = None
              /\ r.it = a
              /\ Forward(r.l) = SubSeq(f, 1, k - 1) \o <<a>> \o SubSeq(f, k, Len(f))
              /\ Backward(r.l) = Reverse(Forward(r.l))
              /\ r.l.node[a].data = v
              /\ DataOf(r.l, f) = DataOf(list, f)

\* erase(pos) of a node unlinks that node alone and returns the position of the
\* node that followed it, the end marker when it was the last.
EraseUnlinks ==
    LET f == Forward(list)
    IN \A p \in DOMAIN list.node :
           LET r == list_erase(list, p)
               k == IndexOf(list, p)
           IN /\ r.err = None
              /\ Forward(r.l) = SubSeq(f, 1, k - 1) \o SubSeq(f, k + 1, Len(f))
              /\ Backward(r.l) = Reverse(Forward(r.l))
              /\ DataOf(r.l, Forward(r.l)) = DataOf(list, Forward(r.l))
              /\ r.it = IF k < Len(f) THEN f[k + 1] ELSE list_end(r.l)

\* erase of the end marker throws and leaves the list unchanged.
EraseEndThrows ==
    LET r == list_erase(list, list_end(list))
    IN r.err /= None /\ r.l = list

\* C33 as claimed: insert(pos, v) places v immediately before the node at pos,
\* at the end when pos is the end marker, and returns the position of the new
\* node; erase(pos) unlinks exactly the node at pos and returns the position of
\* the node that followed it, the end marker when it was last; erase of the end
\* marker fails with the invalid-position kind and leaves the list unchanged.
\* erase of the end marker throws std::out_of_range.
C33_InsertBeforeEraseAt ==
    /\ InsertPlacesBefore
    /\ EraseUnlinks
    /\ EraseEndThrows
    /\ list_erase(list, list_end(list)).err = InvalidIterator

\* ++ on an iterator at the last node of a non-empty list gives the end marker.
IncrementReachesEnd ==
    list.size_ > 0 =>
        /\ list_inc(list, list_get_tail(list)).err = None
        /\ list_inc(list, list_get_tail(list)).it = list_end(list)

\* C34 as claimed: ++ on an iterator at the last node gives the end marker,
\* equal to end(), and -- on an iterator at the end marker of a non-empty list
\* gives the position of the last node.  An iterator holds its node alone, and
\* -- of one that holds none throws.
C34_AroundTheEndMarker ==
    /\ IncrementReachesEnd
    /\ list.size_ > 0 =>
           /\ list_dec(list, list_end(list)).err = None
           /\ list_dec(list, list_end(list)).it = list_get_tail(list)

====
